---- MODULE Spec2Model ----
(***************************************************************************)
(* A model of the document-qa-system ingestion code:                       *)
(*   src/src/core/document_processor.py  (DocumentProcessor)               *)
(*   src/config/settings.py              (Settings)                        *)
(*                                                                         *)
(* Python strings are modelled as sequences of one-character strings, so   *)
(* that path parsing, lower-casing and text splitting are computed rather  *)
(* than assumed.                                                           *)
(***************************************************************************)
EXTENDS Integers, Sequences, FiniteSets, TLC

VARIABLES
    fs,        \* the directory tree under the working directory
    proc,      \* the DocumentProcessor object (self)
    ctor,      \* the arguments the constructor was called with
    last,      \* the last call made on the processor and its outcome
    raised,    \* whether some earlier call on the processor raised
    env,       \* the environment variables the Settings fields read
    disk,      \* the directories and files the Settings validator sees
    settings   \* the outcome of Settings()

vars == <<fs, proc, ctor, last, raised, env, disk, settings>>

(***************************************************************************)
(* Bounds of the model.                                                    *)
(***************************************************************************)
MaxChildren == 2       \* children of the scanned directory
MaxChunkSize == 3      \* largest chunk_size the constructor is given
MaxTextLen == 4        \* longest page_content handed to the splitter

(***************************************************************************)
(* Strings.                                                                *)
(***************************************************************************)
EmptyStr == << >>

UpperLetters == <<"A","B","C","D","E","F","G","H","I","J","K","L","M",
                  "N","O","P","Q","R","S","T","U","V","W","X","Y","Z">>
LowerLetters == <<"a","b","c","d","e","f","g","h","i","j","k","l","m",
                  "n","o","p","q","r","s","t","u","v","w","x","y","z">>

\* str.lower() on one character
LowerChar(c) ==
    IF \E i \in 1..Len(UpperLetters) : UpperLetters[i] = c
    THEN LowerLetters[CHOOSE i \in 1..Len(UpperLetters) : UpperLetters[i] = c]
    ELSE c

\* str.lower()
Lower(s) == [i \in 1..Len(s) |-> LowerChar(s[i])]

\* s[i:] with a 1-based i
Drop(s, i) == SubSeq(s, i, Len(s))

\* str.rfind(c), 1-based; 0 when c does not occur
RFind(s, c) ==
    IF \E i \in 1..Len(s) : s[i] = c
    THEN CHOOSE i \in 1..Len(s) : s[i] = c /\ \A j \in (i+1)..Len(s) : s[j] # c
    ELSE 0

\* str.split(sep) for a one-character sep
RECURSIVE SplitOn(_, _)
SplitOn(s, sep) ==
    IF \A i \in 1..Len(s) : s[i] # sep
    THEN <<s>>
    ELSE LET i == CHOOSE k \in 1..Len(s) :
                      s[k] = sep /\ \A j \in 1..(k-1) : s[j] # sep
         IN  <<SubSeq(s, 1, i-1)>> \o SplitOn(Drop(s, i+1), sep)

\* sep.join(parts)
RECURSIVE Join(_, _)
Join(parts, sep) ==
    IF parts = << >> THEN EmptyStr
    ELSE IF Len(parts) = 1 THEN parts[1]
    ELSE parts[1] \o sep \o Join(Tail(parts), sep)

(***************************************************************************)
(* pathlib.Path on a POSIX system.                                         *)
(***************************************************************************)
\* the root of a path string: "", "/" or "//" (exactly two leading slashes)
PathRoot(s) ==
    IF Len(s) = 0 \/ s[1] # "/" THEN EmptyStr
    ELSE IF Len(s) >= 2 /\ s[2] = "/" /\ (Len(s) = 2 \/ s[3] # "/")
         THEN <<"/", "/">>
         ELSE <<"/">>

\* Path(s): the root and the components, empty and "." components dropped
Path(s) ==
    [root  |-> PathRoot(s),
     parts |-> SelectSeq(SplitOn(s, "/"), LAMBDA p : p # EmptyStr /\ p # <<".">>)]

\* str(path)
PathStr(p) ==
    IF p.root = EmptyStr /\ p.parts = << >> THEN <<".">>
    ELSE p.root \o Join(p.parts, <<"/">>)

\* path.name
PathName(p) == IF p.parts = << >> THEN EmptyStr ELSE p.parts[Len(p.parts)]

\* path.suffix
PathSuffix(p) ==
    LET name == PathName(p)
        i    == RFind(name, ".")
    IN  IF 1 < i /\ i < Len(name) THEN Drop(name, i) ELSE EmptyStr

\* path / name
PathJoin(p, name) == [root |-> p.root, parts |-> Append(p.parts, name)]

(***************************************************************************)
(* Documents (langchain.schema.Document): page_content and a metadata      *)
(* mapping from keys to strings.                                           *)
(***************************************************************************)
Document(page_content, metadata) ==
    [page_content |-> page_content, metadata |-> metadata]

\* a variant of DictUpdate: dict.setdefault semantics, keys already set stay
DictSetDefault(old, new) ==
    [k \in (DOMAIN old) \cup (DOMAIN new) |->
        IF k \in DOMAIN old THEN old[k] ELSE new[k]]

\* dict.update: the keys of new override, every other key of old is kept
DictUpdate(old, new) ==
    [k \in (DOMAIN old) \cup (DOMAIN new) |->
        IF k \in DOMAIN new THEN new[k] ELSE old[k]]

(***************************************************************************)
(* The directory tree.  A node is a file or a directory; a file carries    *)
(* what a loader makes of its bytes (a list of documents, or the exception *)
(* the parser raises), a directory carries its children in the order       *)
(* iterdir() yields them.                                                  *)
(***************************************************************************)
LoadOk(docs) == [ok |-> TRUE, docs |-> docs, err |-> ""]
LoadFails(err) == [ok |-> FALSE, docs |-> << >>, err |-> err]

File(name, load) == [name |-> name, kind |-> "file", load |-> load, kids |-> << >>]
Dir(name, kids) ==
    [name |-> name, kind |-> "dir", load |-> LoadFails("IsADirectoryError"),
     kids |-> kids]
NoNode == [name |-> EmptyStr, kind |-> "none", load |-> LoadFails(""), kids |-> << >>]

\* the entry of a directory node that has the given name
Child(node, name) ==
    IF node.kind = "dir" /\ \E i \in 1..Len(node.kids) : node.kids[i].name = name
    THEN node.kids[CHOOSE i \in 1..Len(node.kids) : node.kids[i].name = name]
    ELSE NoNode

RECURSIVE Walk(_, _)
Walk(node, parts) ==
    IF parts = << >> \/ node.kind = "none" THEN node
    ELSE Walk(Child(node, Head(parts)), Tail(parts))

\* the node a path names, relative to the working directory; nothing in the
\* model lives under an absolute path
Lookup(tree, p) == IF p.root # EmptyStr THEN NoNode ELSE Walk(tree, p.parts)

\* Path.exists()
Exists(tree, p) == Lookup(tree, p).kind # "none"

\* Path.is_file()
IsFile(tree, p) == Lookup(tree, p).kind = "file"

(***************************************************************************)
(* DocumentProcessor.                                                      *)
(***************************************************************************)
ExtPdf  == <<".", "p", "d", "f">>
ExtTxt  == <<".", "t", "x", "t">>
ExtDocx == <<".", "d", "o", "c", "x">>
ExtDoc  == <<".", "d", "o", "c">>

\* the separators the text splitter is configured with, in priority order
Separators ==
    << <<"\n", "\n">>, <<"\n">>, <<".", " ">>, <<"!", " ">>, <<"?", " ">>,
       <<" ">>, EmptyStr >>

\* the extension -> loader table, in insertion order
SupportedExtensions ==
    << [ext |-> ExtPdf,  loader |-> "PyPDFLoader"],
       [ext |-> ExtTxt,  loader |-> "TextLoader"],
       [ext |-> ExtDocx, loader |-> "Docx2txtLoader"],
       [ext |-> ExtDoc,  loader |-> "UnstructuredMarkdownLoader"] >>

\* TextSplitter.__init__ accepts the sizes (it raises ValueError otherwise)
SplitterAccepts(chunk_size, chunk_overlap) ==
    chunk_size > 0 /\ chunk_overlap >= 0 /\ chunk_overlap <= chunk_size

\* DocumentProcessor.__init__
DocumentProcessor(chunk_size, chunk_overlap) ==
    [chunk_size           |-> chunk_size,
     chunk_overlap        |-> chunk_overlap,
     separators           |-> Separators,
     supported_extensions |-> SupportedExtensions]

\* a variant of Keys: the message names the first extension only
KeysFirstOnly(table) == <<table[1].ext>>

\* list(table.keys())
Keys(table) == [i \in 1..Len(table) |-> table[i].ext]

\* ext in table
HasKey(table, ext) == \E i \in 1..Len(table) : table[i].ext = ext

\* table[ext]
Get(table, ext) == table[CHOOSE i \in 1..Len(table) : table[i].ext = ext].loader

NoDetail == [path |-> EmptyStr, ext |-> EmptyStr, supported |-> << >>]

\* a call that raises
Raise(self, exc, detail, loads) ==
    [self |-> self, status |-> "raise", exc |-> exc, detail |-> detail,
     value |-> << >>, loads |-> loads]

\* a call that returns
Return(self, value, loads) ==
    [self |-> self, status |-> "return", exc |-> "", detail |-> NoDetail,
     value |-> value, loads |-> loads]

\* loader_class(str(file_path)).load(): what the file's bytes yield
LoaderLoad(loader_class, tree, path_str) == Lookup(tree, Path(path_str)).load

\* the metadata load_document writes on every document of a file
Stamp(file_path, file_extension) ==
    [source    |-> PathName(file_path),
     file_path |-> PathStr(file_path),
     file_type |-> file_extension]

\* load_document, lines 52-57: the metadata update of every document
StampAll(documents, file_path, file_extension) ==
    [i \in 1..Len(documents) |->
        Document(documents[i].page_content,
                 DictUpdate(documents[i].metadata,
                            Stamp(file_path, file_extension)))]

\* a variant of Reraise: the exception is logged and an empty list returned
Swallow(self, r, call) == Return(self, << >>, <<call>>)

\* a variant of Reraise: the extension whose loader failed leaves the table
ReraiseAndForget(self, r, call) ==
    Raise([self EXCEPT !.supported_extensions =
               SelectSeq(@, LAMBDA e : e.loader # call.loader)],
          r.err, NoDetail, <<call>>)

\* load_document, lines 60-62: the loader's exception is logged and raised again
Reraise(self, r, call) == Raise(self, r.err, NoDetail, <<call>>)

\* a variant of load_document: the extension is checked before the existence
load_document_ext_first(self, tree, path_arg) ==
    LET file_path      == Path(path_arg)
        file_extension == Lower(PathSuffix(file_path))
    IN  IF ~HasKey(self.supported_extensions, file_extension)
        THEN Raise(self, "ValueError",
                   [NoDetail EXCEPT !.ext = file_extension,
                                    !.supported = Keys(self.supported_extensions)],
                   << >>)
        ELSE IF ~Exists(tree, file_path)
        THEN Raise(self, "FileNotFoundError",
                   [NoDetail EXCEPT !.path = PathStr(file_path)], << >>)
        ELSE LET loader_class == Get(self.supported_extensions, file_extension)
                 call  == [loader |-> loader_class, path |-> PathStr(file_path)]
                 r     == LoaderLoad(loader_class, tree, PathStr(file_path))
             IN  IF r.ok
                 THEN Return(self, StampAll(r.docs, file_path, file_extension),
                             <<call>>)
                 ELSE Reraise(self, r, call)

\* DocumentProcessor.load_document
load_document(self, tree, path_arg) ==
    LET file_path      == Path(path_arg)
        file_extension == Lower(PathSuffix(file_path))
    IN  IF ~Exists(tree, file_path)
        THEN Raise(self, "FileNotFoundError",
                   [NoDetail EXCEPT !.path = PathStr(file_path)], << >>)
        ELSE IF ~HasKey(self.supported_extensions, file_extension)
        THEN Raise(self, "ValueError",
                   [NoDetail EXCEPT !.ext = file_extension,
                                    !.supported = Keys(self.supported_extensions)],
                   << >>)
        ELSE LET loader_class == Get(self.supported_extensions, file_extension)
                 call  == [loader |-> loader_class, path |-> PathStr(file_path)]
                 r     == LoaderLoad(loader_class, tree, PathStr(file_path))
             IN  IF r.ok
                 THEN Return(self, StampAll(r.docs, file_path, file_extension),
                             <<call>>)
                 ELSE Reraise(self, r, call)

\* a variant of Eligible: the suffix is compared without lower()
EligibleCaseSensitive(self, tree, file_path) ==
    /\ IsFile(tree, file_path)
    /\ HasKey(self.supported_extensions, PathSuffix(file_path))

\* process_directory, line 90: the children load_document is called for
Eligible(self, tree, file_path) ==
    /\ IsFile(tree, file_path)
    /\ HasKey(self.supported_extensions, Lower(PathSuffix(file_path)))

\* a variant of TryLoad: the exception of a file leaves the loop
TryLoadPropagate(acc, r, path_str) ==
    [self   |-> r.self,
     exc    |-> IF r.status = "raise" THEN r.exc ELSE "",
     value  |-> IF r.status = "return" THEN acc.value \o r.value ELSE acc.value,
     called |-> Append(acc.called, path_str),
     loads  |-> acc.loads \o r.loads]

\* process_directory, lines 91-96: the documents of a file that loads are
\* appended; a file whose load raises is logged and skipped.  acc carries
\* self, all_documents (value), the load_document calls made (called), the
\* loader invocations (loads) and the exception that left the loop, if any.
TryLoad(acc, r, path_str) ==
    [self   |-> r.self,
     exc    |-> "",
     value  |-> IF r.status = "return" THEN acc.value \o r.value ELSE acc.value,
     called |-> Append(acc.called, path_str),
     loads  |-> acc.loads \o r.loads]

\* process_directory, lines 89-96: the loop over directory.iterdir()
RECURSIVE DirLoop(_, _, _, _)
DirLoop(acc, tree, directory, kids) ==
    IF kids = << >> \/ acc.exc # "" THEN acc
    ELSE LET file_path == PathJoin(directory, Head(kids).name)
         IN  IF Eligible(acc.self, tree, file_path)
             THEN DirLoop(TryLoad(acc,
                                  load_document(acc.self, tree, PathStr(file_path)),
                                  PathStr(file_path)),
                          tree, directory, Tail(kids))
             ELSE DirLoop(acc, tree, directory, Tail(kids))

\* DocumentProcessor.process_directory
process_directory(self, tree, directory_path) ==
    LET directory == Path(directory_path)
        node      == Lookup(tree, directory)
    IN  IF ~Exists(tree, directory)
        THEN Raise(self, "FileNotFoundError",
                   [NoDetail EXCEPT !.path = directory_path], << >>)
             @@ [called |-> << >>]
        ELSE IF node.kind # "dir"
        THEN Raise(self, "NotADirectoryError", NoDetail, << >>)
             @@ [called |-> << >>]
        ELSE LET acc == DirLoop([self |-> self, exc |-> "", value |-> << >>,
                                 called |-> << >>, loads |-> << >>],
                                tree, directory, node.kids)
             IN  IF acc.exc # ""
                 THEN Raise(acc.self, acc.exc, NoDetail, acc.loads)
                      @@ [called |-> acc.called]
                 ELSE Return(acc.self, acc.value, acc.loads)
                      @@ [called |-> acc.called]

(***************************************************************************)
(* The text splitter the constructor builds (lines 20-25):                 *)
(* RecursiveCharacterTextSplitter with length_function = len, the          *)
(* separators above, and the library's defaults keep_separator = True,     *)
(* strip_whitespace = True, add_start_index = False.                       *)
(***************************************************************************)
IsSpace(c) == c \in {" ", "\n", "\t"}

\* str.strip()
RECURSIVE Strip(_)
Strip(s) ==
    IF s = EmptyStr THEN s
    ELSE IF IsSpace(s[1]) THEN Strip(Tail(s))
    ELSE IF IsSpace(s[Len(s)]) THEN Strip(SubSeq(s, 1, Len(s) - 1))
    ELSE s

\* sub occurs in s at position i
OccursAt(s, sub, i) ==
    /\ i >= 1
    /\ i + Len(sub) - 1 <= Len(s)
    /\ SubSeq(s, i, i + Len(sub) - 1) = sub

\* re.search(re.escape(sub), s) finds a match
Contains(s, sub) == \E i \in 1..(Len(s) + 1) : OccursAt(s, sub, i)

\* the texts between the successive non-overlapping matches of a non-empty sep
RECURSIVE Between(_, _)
Between(s, sep) ==
    IF ~Contains(s, sep) THEN <<s>>
    ELSE LET i == CHOOSE k \in 1..Len(s) :
                      OccursAt(s, sep, k) /\ \A j \in 1..(k-1) : ~OccursAt(s, sep, j)
         IN  <<SubSeq(s, 1, i - 1)>> \o Between(Drop(s, i + Len(sep)), sep)

\* _split_text_with_regex(text, separator, keep_separator = True): each
\* separator stays at the head of the piece that follows it, empty pieces go
split_text_with_regex(text, separator) ==
    LET pieces == Between(text, separator)
        splits == IF separator # EmptyStr
                  THEN [i \in 1..Len(pieces) |->
                           IF i = 1 THEN pieces[1] ELSE separator \o pieces[i]]
                  ELSE [i \in 1..Len(text) |-> <<text[i]>>]
    IN  SelectSeq(splits, LAMBDA x : x # EmptyStr)

\* TextSplitter._join_docs: no chunk (the empty list) when nothing is left
\* after stripping
join_docs(docs, separator) ==
    LET text == Strip(Join(docs, separator))
    IN  IF text = EmptyStr THEN << >> ELSE <<text>>

\* the length the separator adds to a chunk that holds n pieces already
SepLen(separator, n, least) == IF n > least THEN Len(separator) ELSE 0

\* TextSplitter._merge_splits, the while loop: pieces leave the head of
\* current_doc until the overlap is kept and the next piece fits
RECURSIVE DropHead(_, _, _, _, _)
DropHead(self, current_doc, total, len, separator) ==
    IF \/ total > self.chunk_overlap
       \/ /\ total + len + SepLen(separator, Len(current_doc), 0) > self.chunk_size
          /\ total > 0
    THEN DropHead(self, Tail(current_doc),
                  total - (Len(Head(current_doc))
                           + SepLen(separator, Len(current_doc), 1)),
                  len, separator)
    ELSE [current_doc |-> current_doc, total |-> total]

\* TextSplitter._merge_splits, the for loop over the pieces
RECURSIVE MergeLoop(_, _, _, _, _, _)
MergeLoop(self, splits, separator, docs, current_doc, total) ==
    IF splits = << >> THEN docs \o join_docs(current_doc, separator)
    ELSE LET d    == Head(splits)
             len  == Len(d)
             full == total + len + SepLen(separator, Len(current_doc), 0)
                         > self.chunk_size
             emit == full /\ Len(current_doc) > 0
             kept == IF emit
                     THEN DropHead(self, current_doc, total, len, separator)
                     ELSE [current_doc |-> current_doc, total |-> total]
             cur  == Append(kept.current_doc, d)
         IN  MergeLoop(self, Tail(splits), separator,
                       IF emit THEN docs \o join_docs(current_doc, separator)
                               ELSE docs,
                       cur,
                       kept.total + len + SepLen(separator, Len(cur), 1))

\* TextSplitter._merge_splits
merge_splits(self, splits, separator) ==
    MergeLoop(self, splits, separator, << >>, << >>, 0)

\* the position in separators of the one _split_text picks: the first that is
\* empty or occurs in the text (0: none does, and the last one is used)
PickSeparator(text, separators) ==
    IF \E i \in 1..Len(separators) :
           separators[i] = EmptyStr \/ Contains(text, separators[i])
    THEN CHOOSE i \in 1..Len(separators) :
           /\ separators[i] = EmptyStr \/ Contains(text, separators[i])
           /\ \A j \in 1..(i-1) :
                  separators[j] # EmptyStr /\ ~Contains(text, separators[j])
    ELSE 0

RECURSIVE split_text(_, _, _)
RECURSIVE SplitLoop(_, _, _, _, _)

\* RecursiveCharacterTextSplitter._split_text, the loop over the pieces: a
\* piece shorter than chunk_size waits in good_splits to be merged, any other
\* is split again with the remaining separators (or kept, when none remain)
SplitLoop(self, splits, new_separators, good_splits, final_chunks) ==
    IF splits = << >>
    THEN IF good_splits # << >>
         THEN final_chunks \o merge_splits(self, good_splits, EmptyStr)
         ELSE final_chunks
    ELSE LET s == Head(splits)
         IN  IF Len(s) < self.chunk_size
             THEN SplitLoop(self, Tail(splits), new_separators,
                            Append(good_splits, s), final_chunks)
             ELSE LET flushed == IF good_splits # << >>
                                 THEN final_chunks
                                      \o merge_splits(self, good_splits, EmptyStr)
                                 ELSE final_chunks
                      other   == IF new_separators = << >>
                                 THEN <<s>>
                                 ELSE split_text(self, s, new_separators)
                  IN  SplitLoop(self, Tail(splits), new_separators, << >>,
                                flushed \o other)

\* RecursiveCharacterTextSplitter._split_text
split_text(self, text, separators) ==
    LET i              == PickSeparator(text, separators)
        separator      == IF i = 0 THEN separators[Len(separators)]
                                   ELSE separators[i]
        new_separators == IF i = 0 \/ separators[i] = EmptyStr THEN << >>
                          ELSE Drop(separators, i + 1)
        splits         == split_text_with_regex(text, separator)
    IN  SplitLoop(self, splits, new_separators, << >>, << >>)

\* TextSplitter.create_documents for one record: every chunk gets a copy of
\* the record's metadata
ChunksOf(self, doc) ==
    LET texts == split_text(self, doc.page_content, self.separators)
    IN  [i \in 1..Len(texts) |-> Document(texts[i], doc.metadata)]

\* TextSplitter.split_documents: the records' chunks, record after record
RECURSIVE SplitterSplitDocuments(_, _)
SplitterSplitDocuments(self, documents) ==
    IF documents = << >> THEN << >>
    ELSE ChunksOf(self, Head(documents))
         \o SplitterSplitDocuments(self, Tail(documents))

\* a variant of split_documents: the documents are returned as they came
split_documents_unsplit(self, documents) == Return(self, documents, << >>)

\* DocumentProcessor.split_documents
split_documents(self, documents) ==
    IF documents = << >>
    THEN Return(self, << >>, << >>)
    ELSE Return(self, SplitterSplitDocuments(self, documents), << >>)

(***************************************************************************)
(* Settings (src/config/settings.py).                                      *)
(***************************************************************************)
\* the field defaults, lines 22-23
DefaultVectorStorePath == <<".", "/", "d", "a", "t", "a", "/", "v", "e", "c", "t", "o", "r", "_", "s", "t", "o", "r", "e">>
DefaultUploadDirectory == <<".", "/", "d", "a", "t", "a", "/", "u", "p", "l", "o", "a", "d", "s">>

Unset == [set |-> FALSE, value |-> EmptyStr]
SetTo(v) == [set |-> TRUE, value |-> v]

\* the paths from a directory up to the root or the working directory
Ancestors(p) ==
    {[root |-> p.root, parts |-> SubSeq(p.parts, 1, n)] : n \in 0..(Len(p.parts) - 1)}

\* Path.is_dir(): the root and the working directory always are
IsDir(d, p) == p.parts = << >> \/ p \in d.dirs

\* Path(v).mkdir(parents=True, exist_ok=True): a file at the path or above it
\* makes it raise; otherwise the path and its missing parents are created
Mkdir(d, p) ==
    IF p \in d.files
    THEN [ok |-> FALSE, exc |-> "FileExistsError", disk |-> d]
    ELSE IF Ancestors(p) \cap d.files # {}
    THEN [ok |-> FALSE, exc |-> "NotADirectoryError", disk |-> d]
    ELSE [ok |-> TRUE, exc |-> "",
          disk |-> [d EXCEPT !.dirs = @ \cup {q \in Ancestors(p) \cup {p} :
                                                  q.parts # << >>}]]

\* a variant of ensure_directory_exists: no directory is made
ensure_directory_exists_no_mkdir(d, v) ==
    [ok |-> TRUE, exc |-> "", disk |-> d, value |-> PathStr(Path(v))]

\* a variant of ensure_directory_exists: the argument is returned as given
ensure_directory_exists_verbatim(d, v) ==
    LET made == Mkdir(d, Path(v))
    IN  [ok |-> made.ok, exc |-> made.exc, disk |-> made.disk, value |-> v]

\* Settings.ensure_directory_exists
ensure_directory_exists(d, v) ==
    LET path == Path(v)
        made == Mkdir(d, path)
    IN  [ok |-> made.ok, exc |-> made.exc, disk |-> made.disk,
         value |-> PathStr(path)]

\* the value a path field is built from: the environment variable when it is
\* set, the field default otherwise
FieldInput(var, default) == IF var.set THEN var.value ELSE default

NoSettings ==
    [status |-> "none", exc |-> "",
     vector_store_path |-> EmptyStr, upload_directory |-> EmptyStr]

\* Settings(): BaseSettings validates defaults too, so the validator runs on
\* vector_store_path and then on upload_directory whatever their origin; an
\* OSError of the first ends the construction
SettingsInit(e, d) ==
    LET v1 == ensure_directory_exists(
                  d, FieldInput(e.VECTOR_STORE_PATH, DefaultVectorStorePath))
        v2 == ensure_directory_exists(
                  v1.disk, FieldInput(e.UPLOAD_DIRECTORY, DefaultUploadDirectory))
    IN  IF ~v1.ok
        THEN [disk |-> v1.disk,
              settings |-> [NoSettings EXCEPT !.status = "raise", !.exc = v1.exc]]
        ELSE IF ~v2.ok
        THEN [disk |-> v2.disk,
              settings |-> [NoSettings EXCEPT !.status = "raise", !.exc = v2.exc]]
        ELSE [disk |-> v2.disk,
              settings |-> [status |-> "ok", exc |-> "",
                            vector_store_path |-> v1.value,
                            upload_directory  |-> v2.value]]

(***************************************************************************)
(* The inputs of the model.                                                *)
(***************************************************************************)
Text1 == <<"a", "b", " ", "c", "d">>
Text2 == <<"a", ".", " ", "b">>
TextMarks == <<"a", "!", " ", "b", "?", " ", "c">>
DataVs == <<"d", "a", "t", "a", "/", "v", "s">>
DataVsSlashes == <<"d", "a", "t", "a", "/", "/", "v", "s", "/">>
AbsVs == <<"/", "s", "r", "v", "/", "v", "s">>
PartData == <<"d", "a", "t", "a">>
PartVectorStore == <<"v", "e", "c", "t", "o", "r", "_", "s", "t", "o", "r", "e">>
PartUploads == <<"u", "p", "l", "o", "a", "d", "s">>
Text3 == <<"x", "\n", "\n", "y", " ", "z">>

\* what loaders put in metadata themselves: the path as source, a page
\* number, or keys that collide with the ones load_document writes
MetaText == [source |-> <<"r", "a", "w">>]
MetaPage(n) == [source |-> <<"r", "a", "w">>, page |-> n]
MetaClash ==
    [source |-> <<"S">>, file_path |-> <<"P">>,
     file_type |-> <<"T">>, title |-> <<"t">>]

NameA   == <<"a", ".", "t", "x", "t">>
NameB   == <<"b", ".", "P", "D", "F">>
NameC   == <<"c", ".", "d", "o", "c", "x">>
NameE   == <<"e", ".", "c", "s", "v">>
NameF   == <<"f", ".", "D", "o", "c">>
NameH   == <<".", "t", "x", "t">>
NameSub == <<"s", "u", "b">>
NameS   == <<"s", ".", "t", "x", "t">>
NameN   == <<"n", ".", "p", "d", "f">>
NameD   == <<"d">>

\* the entries the scanned directory is filled from
Entries ==
    { File(NameA, LoadOk(<<Document(Text1, MetaText)>>)),
      File(NameB, LoadOk(<<Document(Text2, MetaPage(<<"0">>)),
                           Document(Text3, MetaPage(<<"1">>))>>)),
      File(NameC, LoadFails("BadZipFile")),
      File(NameE, LoadOk(<<Document(Text1, MetaText)>>)),
      File(NameF, LoadOk(<<Document(Text2, MetaClash)>>)),
      File(NameH, LoadOk(<<Document(Text1, MetaText)>>)),
      Dir(NameSub, <<File(NameN, LoadOk(<<Document(Text3, MetaPage(<<"0">>))>>))>>),
      Dir(NameS, << >>) }

\* the sequences of at most n entries with distinct names
RECURSIVE Listings(_)
Listings(n) ==
    IF n = 0 THEN {<< >>}
    ELSE LET shorter == Listings(n - 1)
         IN  shorter \cup
             {Append(l, e) : l \in {x \in shorter : Len(x) = n - 1},
                             e \in Entries} 

DistinctNames(l) ==
    \A i, j \in 1..Len(l) : i # j => l[i].name # l[j].name

\* the trees: the working directory holds one directory, d
Trees ==
    {Dir(EmptyStr, <<Dir(NameD, l)>>) :
        l \in {x \in Listings(MaxChildren) : DistinctNames(x)}}

\* the arguments load_document is called with
LoadPaths ==
    { <<"d", "/", "a", ".", "t", "x", "t">>,
      <<".", "/", "d", "/", "/", "a", ".", "t", "x", "t">>,
      <<"d", "/", "b", ".", "P", "D", "F">>,
      <<"d", "/", "c", ".", "d", "o", "c", "x">>,
      <<"d", "/", "e", ".", "c", "s", "v">>,
      <<"d", "/", "f", ".", "D", "o", "c">>,
      <<"d", "/", ".", "t", "x", "t">>,
      <<"d", "/", "s", "u", "b">>,
      <<"d", "/", "s", "u", "b", "/", "n", ".", "p", "d", "f">>,
      <<"d", "/", "s", ".", "t", "x", "t">>,
      <<"d", "/", "z", "z", ".", "p", "d", "f">>,
      <<"d", "/", "z", "z", ".", "c", "s", "v">>,
      <<"/", "a", ".", "t", "x", "t">>,
      <<"d">> }

\* the arguments process_directory is called with
DirPaths ==
    { <<"d">>,
      <<".", "/", "d", "/">>,
      <<"d", "/", "s", "u", "b">>,
      <<"d", "/", "a", ".", "t", "x", "t">>,
      <<"n", "o", "d", "i", "r">>,
      <<".">> }

\* the constructor arguments the splitter accepts
CtorArgs ==
    {c \in [chunk_size : 1..MaxChunkSize, chunk_overlap : 0..MaxChunkSize] :
        SplitterAccepts(c.chunk_size, c.chunk_overlap)}

\* the ones the processor of the directory runs is built with
ProcArgs == {c \in CtorArgs : c.chunk_size = MaxChunkSize /\ c.chunk_overlap <= 1}

NoCall ==
    [op |-> "none", path |-> EmptyStr, docs |-> << >>, status |-> "none",
     exc |-> "", detail |-> NoDetail, value |-> << >>, loads |-> << >>,
     called |-> << >>]

\* the record of a call: what it was given and what came of it
Call(op, path, docs, r) ==
    [op |-> op, path |-> path, docs |-> docs, status |-> r.status,
     exc |-> r.exc, detail |-> r.detail, value |-> r.value, loads |-> r.loads,
     called |-> IF "called" \in DOMAIN r THEN r.called ELSE << >>]

NoEnv == [VECTOR_STORE_PATH |-> Unset, UPLOAD_DIRECTORY |-> Unset]
NoDisk == [dirs |-> {}, files |-> {}]
NoTree == Dir(EmptyStr, << >>)

(***************************************************************************)
(* The processor: a tree, a constructed processor, and calls on it.        *)
(***************************************************************************)
Init ==
    /\ fs \in Trees
    /\ ctor \in ProcArgs
    /\ proc = DocumentProcessor(ctor.chunk_size, ctor.chunk_overlap)
    /\ last = NoCall
    /\ raised = FALSE
    /\ env = NoEnv
    /\ disk = NoDisk
    /\ settings = NoSettings

LoadDocument ==
    \E path \in LoadPaths :
        LET r == load_document(proc, fs, path)
        IN  /\ proc' = r.self
            /\ last' = Call("load_document", path, << >>, r)
            /\ raised' = (raised \/ last.status = "raise")
            /\ UNCHANGED <<fs, ctor, env, disk, settings>>

ProcessDirectory ==
    \E path \in DirPaths :
        LET r == process_directory(proc, fs, path)
        IN  /\ proc' = r.self
            /\ last' = Call("process_directory", path, << >>, r)
            /\ raised' = (raised \/ last.status = "raise")
            /\ UNCHANGED <<fs, ctor, env, disk, settings>>

\* split_documents on the documents at hand: what the previous call returned
SplitDocuments ==
    /\ last.status # "raise"
    /\ LET r == split_documents(proc, last.value)
       IN  /\ proc' = r.self
           /\ last' = Call("split_documents", EmptyStr, last.value, r)
    /\ UNCHANGED <<fs, ctor, raised, env, disk, settings>>

Next == LoadDocument \/ ProcessDirectory \/ SplitDocuments

Spec == Init /\ [][Next]_vars

(***************************************************************************)
(* The splitter alone: a processor of every accepted size, and documents   *)
(* of every text up to MaxTextLen.                                         *)
(***************************************************************************)
Alphabet == {"a", " ", "\n", "."}
Texts == UNION {[1..n -> Alphabet] : n \in 0..MaxTextLen}

Meta1 == [source |-> <<"1">>]
Meta2 == [source |-> <<"2">>, page |-> <<"7">>]

SplitInputs ==
    {<< >>}
    \cup {<<Document(t, Meta1)>> : t \in Texts}
    \cup {<<Document(t, Meta1), Document(u, Meta2)>> :
             t \in Texts, u \in {EmptyStr, TextMarks}}

InitSplit ==
    /\ fs = NoTree
    /\ ctor \in CtorArgs
    /\ proc = DocumentProcessor(ctor.chunk_size, ctor.chunk_overlap)
    /\ \E docs \in SplitInputs : last = [NoCall EXCEPT !.value = docs]
    /\ raised = FALSE
    /\ env = NoEnv
    /\ disk = NoDisk
    /\ settings = NoSettings

NextSplit == SplitDocuments

SpecSplit == InitSplit /\ [][NextSplit]_vars

(***************************************************************************)
(* Settings: an environment, a disk, and the module-level Settings().      *)
(***************************************************************************)
EnvValues ==
    { Unset,
      SetTo(DefaultVectorStorePath),
      SetTo(DataVs),
      SetTo(DataVsSlashes),
      SetTo(AbsVs),
      SetTo(EmptyStr) }

Rel(parts) == [root |-> EmptyStr, parts |-> parts]

\* the disks: which of data, data/vector_store, data/uploads are directories
\* already, and whether a plain file sits where one of them should go
Disks ==
    { [dirs |-> {}, files |-> {}],
      [dirs |-> {Rel(<<PartData>>)}, files |-> {}],
      [dirs |-> {Rel(<<PartData>>), Rel(<<PartData, PartVectorStore>>)},
       files |-> {}],
      [dirs |-> {Rel(<<PartData>>), Rel(<<PartData, PartVectorStore>>),
                 Rel(<<PartData, PartUploads>>)},
       files |-> {}],
      [dirs |-> {}, files |-> {Rel(<<PartData>>)}],
      [dirs |-> {Rel(<<PartData>>)}, files |-> {Rel(<<PartData, PartUploads>>)}] }

InitSettings ==
    /\ fs = NoTree
    /\ ctor = [chunk_size |-> 1, chunk_overlap |-> 0]
    /\ proc = DocumentProcessor(ctor.chunk_size, ctor.chunk_overlap)
    /\ last = NoCall
    /\ raised = FALSE
    /\ env \in [VECTOR_STORE_PATH : EnvValues, UPLOAD_DIRECTORY : EnvValues]
    /\ disk \in Disks
    /\ settings = NoSettings

\* settings = Settings(), line 48
Construct ==
    /\ LET r == SettingsInit(env, disk)
       IN  /\ disk' = r.disk
           /\ settings' = r.settings
    /\ UNCHANGED <<fs, proc, ctor, last, raised, env>>

NextSettings == Construct

SpecSettings == InitSettings /\ [][NextSettings]_vars

(***************************************************************************)
(* What the claims speak of.                                               *)
(***************************************************************************)
FourExtensions == {ExtPdf, ExtTxt, ExtDocx, ExtDoc}

\* the name ends, whatever its letter case, in one of the four extensions,
\* with something before it
SupportedName(name) ==
    \E e \in FourExtensions :
        /\ Len(name) > Len(e)
        /\ Lower(SubSeq(name, Len(name) - Len(e) + 1, Len(name))) = e

\* the lower-cased extension of a supported name
ExtensionOf(name) ==
    CHOOSE e \in FourExtensions :
        /\ Len(name) > Len(e)
        /\ Lower(SubSeq(name, Len(name) - Len(e) + 1, Len(name))) = e

\* the node the last call's path names
LastNode == Lookup(fs, Path(last.path))

\* the path string of a child of the directory the last call scanned
ChildPath(kid) ==
    IF PathStr(Path(last.path)) = <<".">> THEN kid.name
    ELSE PathStr(Path(last.path)) \o <<"/">> \o kid.name

\* a direct child load_document is to be called for
SupportedKid(kid) == kid.kind = "file" /\ SupportedName(kid.name)

\* the paths of the supported children, in iteration order
SupportedPaths ==
    LET kids == SelectSeq(LastNode.kids, SupportedKid)
    IN  [i \in 1..Len(kids) |-> ChildPath(kids[i])]

ScannedDirectory == last.op = "process_directory" /\ LastNode.kind = "dir"

RECURSIVE Flatten(_)
Flatten(lists) ==
    IF lists = << >> THEN << >> ELSE Head(lists) \o Flatten(Tail(lists))

\* C1: process_directory on an existing directory does not raise; every
\* supported child is attempted whether or not an earlier one failed, and the
\* records returned come only from children whose load succeeded.
C1_PartialFailureTolerance ==
    ScannedDirectory =>
        /\ last.status = "return"
        /\ last.called = SupportedPaths
        /\ \A i \in 1..Len(last.value) :
              \E k \in 1..Len(LastNode.kids) :
                  /\ SupportedKid(LastNode.kids[k])
                  /\ LastNode.kids[k].load.ok
                  /\ last.value[i].metadata.file_path = ChildPath(LastNode.kids[k])

\* a failing supported child comes first, and the one after it is loaded
C1_Witness ==
    /\ ScannedDirectory
    /\ Len(LastNode.kids) = 2
    /\ SupportedKid(LastNode.kids[1]) /\ ~LastNode.kids[1].load.ok
    /\ Len(last.called) = 2
    /\ last.value # << >>

\* C2: process_directory returns the concatenation, in iteration order, of
\* what load_document returns for the direct children that are files with a
\* supported extension and load; load_document is called once for each
\* supported file child and for nothing else.
C2_Concatenation ==
    ScannedDirectory =>
        /\ last.value =
              Flatten([k \in 1..Len(LastNode.kids) |->
                  IF SupportedKid(LastNode.kids[k]) /\ LastNode.kids[k].load.ok
                  THEN load_document(proc, fs, ChildPath(LastNode.kids[k])).value
                  ELSE << >>])
        /\ last.called = SupportedPaths
        /\ [i \in 1..Len(last.loads) |-> last.loads[i].path] = SupportedPaths

\* two supported files, one with an upper-case extension, three records
C2_Witness ==
    /\ ScannedDirectory
    /\ Len(last.called) = 2
    /\ Len(last.value) = 3
    /\ \E k \in 1..Len(LastNode.kids) : LastNode.kids[k].name = NameB

\* C3: load_document on a path that does not exist raises FileNotFoundError
\* whatever the extension, and no loader is invoked.
C3_NotFoundFirst ==
    (last.op = "load_document" /\ LastNode.kind = "none") =>
        /\ last.status = "raise"
        /\ last.exc = "FileNotFoundError"
        /\ last.loads = << >>

\* a missing path with an extension outside the table
C3_Witness ==
    /\ last.op = "load_document"
    /\ last.path = <<"d", "/", "z", "z", ".", "c", "s", "v">>
    /\ last.exc = "FileNotFoundError"

\* C4: load_document on an existing path whose lower-cased extension is not
\* one of the four raises ValueError naming all four, and no loader is
\* invoked; an existing path whose extension is one of the four in any letter
\* case is not rejected.
C4_UnsupportedType ==
    (last.op = "load_document" /\ LastNode.kind # "none") =>
        IF SupportedName(LastNode.name)
        THEN last.exc # "ValueError" /\ Len(last.loads) = 1
        ELSE /\ last.status = "raise"
             /\ last.exc = "ValueError"
             /\ last.detail.supported = <<ExtPdf, ExtTxt, ExtDocx, ExtDoc>>
             /\ last.loads = << >>

\* an existing .csv file is rejected
C4_Witness ==
    /\ last.op = "load_document"
    /\ last.path = <<"d", "/", "e", ".", "c", "s", "v">>
    /\ last.exc = "ValueError"
    /\ Len(last.detail.supported) = 4

\* the three keys load_document writes
StampKeys == {"source", "file_path", "file_type"}

\* a returned record is the loader's record with the three keys written from
\* the file's name and path, and nothing else changed
StampedFrom(doc, loaded, name, path_str) ==
    /\ SupportedName(name)
    /\ doc.page_content = loaded.page_content
    /\ DOMAIN doc.metadata = (DOMAIN loaded.metadata) \cup StampKeys
    /\ doc.metadata.source = name
    /\ doc.metadata.file_path = path_str
    /\ doc.metadata.file_type = ExtensionOf(name)
    /\ \A k \in (DOMAIN loaded.metadata) \ StampKeys :
          doc.metadata[k] = loaded.metadata[k]

\* C5: every record load_document returns, and so every record
\* process_directory returns, has source = the file's name, file_path = the
\* file's path string and file_type = its lower-cased extension, whatever the
\* loader had set for these keys, and every other key as the loader set it.
C5_MetadataStamp ==
    /\ (last.op = "load_document" /\ last.status = "return") =>
          /\ Len(last.value) = Len(LastNode.load.docs)
          /\ \A i \in 1..Len(last.value) :
                StampedFrom(last.value[i], LastNode.load.docs[i],
                            LastNode.name, PathStr(Path(last.path)))
    /\ (last.op = "process_directory" /\ last.status = "return") =>
          \A i \in 1..Len(last.value) :
              \E k \in 1..Len(LastNode.kids) :
                  \E j \in 1..Len(LastNode.kids[k].load.docs) :
                      StampedFrom(last.value[i], LastNode.kids[k].load.docs[j],
                                  LastNode.kids[k].name,
                                  ChildPath(LastNode.kids[k]))

\* a record whose loader had set all three keys itself, and one more
C5_Witness ==
    /\ last.op = "load_document"
    /\ last.status = "return"
    /\ last.value # << >>
    /\ LastNode.load.docs[1].metadata = MetaClash
    /\ last.value[1].metadata.file_type = ExtDoc
    /\ last.value[1].metadata.title = MetaClash.title

\* C6: when the loader raises for an existing file with a supported
\* extension, load_document raises that same exception and returns nothing;
\* process_directory on a directory never raises it.
C6_LoaderFailure ==
    /\ ( /\ last.op = "load_document"
         /\ LastNode.kind # "none"
         /\ SupportedName(LastNode.name)
         /\ ~LastNode.load.ok ) =>
            /\ last.status = "raise"
            /\ last.exc = LastNode.load.err
            /\ last.value = << >>
    /\ ScannedDirectory => last.status = "return" /\ last.exc = ""

\* the corrupt .docx raises out of load_document
C6_Witness ==
    /\ last.op = "load_document"
    /\ last.path = <<"d", "/", "c", ".", "d", "o", "c", "x">>
    /\ last.status = "raise"
    /\ last.exc = "BadZipFile"

\* the value a path field is configured with
Configured(var, default) == IF var.set THEN var.value ELSE default

\* C7: after Settings() returns, both configured directories exist, and with
\* a variable unset it is the default directory that exists.
C7_DirectoriesExist ==
    settings.status = "ok" =>
        /\ IsDir(disk, Path(Configured(env.VECTOR_STORE_PATH, DefaultVectorStorePath)))
        /\ IsDir(disk, Path(Configured(env.UPLOAD_DIRECTORY, DefaultUploadDirectory)))
        /\ ~env.VECTOR_STORE_PATH.set =>
               Rel(<<PartData, PartVectorStore>>) \in disk.dirs
        /\ ~env.UPLOAD_DIRECTORY.set =>
               Rel(<<PartData, PartUploads>>) \in disk.dirs

\* both variables unset, both default directories on disk
C7_Witness ==
    /\ settings.status = "ok"
    /\ ~env.VECTOR_STORE_PATH.set
    /\ ~env.UPLOAD_DIRECTORY.set
    /\ disk.dirs = {Rel(<<PartData>>), Rel(<<PartData, PartVectorStore>>),
                    Rel(<<PartData, PartUploads>>)}

\* C8 as stated: the value stored in a path field equals the configured
\* string character for character.
C8_Original ==
    settings.status = "ok" =>
        /\ settings.vector_store_path =
               Configured(env.VECTOR_STORE_PATH, DefaultVectorStorePath)
        /\ settings.upload_directory =
               Configured(env.UPLOAD_DIRECTORY, DefaultUploadDirectory)

\* the stored string names the same path as the configured one and is in
\* pathlib's form: parsing and printing it again changes nothing
SamePathNormalised(stored, v) ==
    /\ Path(stored) = Path(v)
    /\ PathStr(Path(stored)) = stored

\* C8 amended: the value stored in a path field is the configured path in
\* pathlib's string form (same root and components, no "." or empty
\* component, no trailing slash, "." for the empty path); the defaults are
\* stored as data/vector_store and data/uploads.
C8_Normalised ==
    settings.status = "ok" =>
        /\ SamePathNormalised(settings.vector_store_path,
               Configured(env.VECTOR_STORE_PATH, DefaultVectorStorePath))
        /\ SamePathNormalised(settings.upload_directory,
               Configured(env.UPLOAD_DIRECTORY, DefaultUploadDirectory))
        /\ ~env.VECTOR_STORE_PATH.set =>
               settings.vector_store_path = <<"d", "a", "t", "a", "/", "v", "e", "c", "t", "o", "r", "_", "s", "t", "o", "r", "e">>
        /\ ~env.UPLOAD_DIRECTORY.set =>
               settings.upload_directory = <<"d", "a", "t", "a", "/", "u", "p", "l", "o", "a", "d", "s">>

\* the default ./data/vector_store is stored without its leading ./
C8_Witness ==
    /\ settings.status = "ok"
    /\ ~env.VECTOR_STORE_PATH.set
    /\ settings.vector_store_path # DefaultVectorStorePath

\* chunk is a run of consecutive characters of text
IsSlice(chunk, text) ==
    \E i \in 1..(Len(text) + 1) : OccursAt(text, chunk, i)

CutFrom(chunk, doc) ==
    /\ chunk.metadata = doc.metadata
    /\ IsSlice(chunk.page_content, doc.page_content)

\* the chunks can be dealt to the records in order: each chunk to the record
\* it was cut from, no chunk of a later record before one of an earlier
RECURSIVE InRecordOrder(_, _)
InRecordOrder(chunks, docs) ==
    IF chunks = << >> THEN TRUE
    ELSE IF docs = << >> THEN FALSE
    ELSE \/ CutFrom(Head(chunks), Head(docs)) /\ InRecordOrder(Tail(chunks), docs)
         \/ InRecordOrder(chunks, Tail(docs))

\* C9: split_documents returns the empty list for empty input; every chunk
\* it returns has at most chunk_size characters, carries the metadata of the
\* record it was cut from and is a slice of that record's content, and the
\* chunks of earlier records precede those of later ones.
C9_Chunks ==
    last.op = "split_documents" =>
        /\ last.status = "return"
        /\ last.docs = << >> => last.value = << >>
        /\ \A i \in 1..Len(last.value) :
              Len(last.value[i].page_content) <= proc.chunk_size
        /\ InRecordOrder(last.value, last.docs)

\* two records, the first longer than chunk_size and cut in several chunks
C9_Witness ==
    /\ last.op = "split_documents"
    /\ Len(last.docs) = 2
    /\ Len(last.docs[1].page_content) > proc.chunk_size
    /\ Len(last.value) > 3
    /\ last.value[Len(last.value)].metadata = Meta2

\* what a call came to
Outcome(r) == <<r.status, r.exc, r.detail, r.value>>

\* C10: no call changes the processor: chunk_size, chunk_overlap and the
\* extension table stay what the constructor set, and each call comes to
\* what it comes to on a freshly constructed processor.
C10_ProcessorUnchanged ==
    LET fresh == DocumentProcessor(ctor.chunk_size, ctor.chunk_overlap)
    IN  /\ proc = fresh
        /\ last.op = "load_document" =>
              Outcome(last) = Outcome(load_document(fresh, fs, last.path))
        /\ last.op = "process_directory" =>
              Outcome(last) = Outcome(process_directory(fresh, fs, last.path))
        /\ last.op = "split_documents" =>
              Outcome(last) = Outcome(split_documents(fresh, last.docs))

\* a load that succeeds after an earlier call raised
C10_Witness ==
    /\ raised
    /\ last.op = "load_document"
    /\ last.status = "return"
    /\ last.value # << >>

====
